---------------------------- MODULE Spec2Model ----------------------------
(***************************************************************************)
(* The aggregators of the primary (primary/src/aggregators.rs), as state   *)
(* machines over a committee of stake-weighted authorities.                *)
(*                                                                         *)
(* An authority (PublicKey) is a number 1..N in the canonical authority    *)
(* order.  A digest is a number.  A 128-bit word is a function from bit    *)
(* positions 0..127 to BOOLEAN (TRUE is a 1 bit).                          *)
(***************************************************************************)
EXTENDS Integers, Sequences, FiniteSets, TLC

\* ------------------------------------------------------------------ bounds
\* Largest small committee; larger ones are LargeSizes.
MaxN == 3
\* Largest stake of one authority.
MaxStake == 2
\* Rounds a message can carry.
MaxRound == 2
\* Headers that are not genesis headers.
MaxHeaders == 2
\* Most messages the Synchronizer sends to the waiters in one run.
MaxSent == 1
\* Most certificates waiting in the channel to the CertificateWaiter.
MaxQueue == 2

\* Width of one word of VotesAggregator.pk_bit_vec (u128).
WordBits == 128

VARIABLES
    committee,              \* config::Committee: stake, bls key and quorum
    clan,                   \* config::Clan of the origin: its members
    vote_pool,              \* the votes the Core can feed to the aggregator
    votes_aggregator,       \* VotesAggregator's fields
    votes_before,           \* the fields when the last append was called
    votes_call,             \* the vote of the last VotesAggregator.append
    votes_ret,              \* what that call returned
    votes_emitted,          \* how many calls have returned a Certificate
    votes_log,              \* the votes accepted, in the order of their acceptance
    leaders_per_round,      \* the parameter of the same name
    cert_pool,              \* the certificates the Core can feed
    certificates_aggregator,\* CertificatesAggregator's fields
    certs_before,           \* the fields when the last append was called
    certs_call,             \* the certificate of the last append
    certs_ret,              \* what that call returned
    certs_log,              \* every certificate accepted, in order
    certs_drained,          \* how many of them had been returned before the last append
    timeout_pool,           \* the timeouts the Core can feed
    timeout_aggregator,     \* TimeoutAggregator's fields
    timeouts_before,        \* the fields when the last append was called
    timeouts_call,          \* the timeout of the last append
    timeouts_ret,           \* what that call returned
    no_vote_pool,           \* the no-vote messages the Core can feed
    no_vote_aggregator,     \* NoVoteAggregator's fields
    no_votes_before,        \* the fields when the last append was called
    no_votes_call,          \* the no-vote message of the last append
    no_votes_ret,           \* what that call returned
    timeout_cert,           \* a messages::TimeoutCert under construction
    timeout_cert_before,    \* its fields when the last add_timeout was called
    no_vote_cert,           \* a messages::NoVoteCert under construction
    no_vote_cert_before,    \* its fields when the last add_no_vote was called
    add_call,               \* the last add_timeout or add_no_vote and its author
    add_ret,                \* what that call returned
    headers,                \* the headers of the DAG, by their id
    store,                  \* Storage: the value under every key written
    storage_faults,         \* can a Storage operation fail in this run?
    tx_header_waiter,       \* channel Synchronizer -> HeaderWaiter
    tx_certificate_waiter,  \* channel Synchronizer -> CertificateWaiter
    sync_call,              \* the last call of the Synchronizer and its argument
    sync_ret,               \* what that call returned
    store_reads,            \* the keys that call read from Storage, in order
    capacity,               \* how many messages a channel holds
    core_task,              \* the Core's task: running, or suspended in a send
    waiting,                \* CertificateWaiter::run's pool of pending futures
    tx_core,                \* channel CertificateWaiter -> Core
    delivered,              \* every future whose certificate was sent to the Core
    waiter_task             \* the CertificateWaiter's task: running, suspended in a
                            \* send, or panicked

votes_vars ==
    <<vote_pool, votes_aggregator, votes_before, votes_call, votes_ret, votes_emitted,
      votes_log>>

certs_vars ==
    <<leaders_per_round, cert_pool, certificates_aggregator, certs_before,
      certs_call, certs_ret, certs_log, certs_drained>>

timeouts_vars ==
    <<timeout_pool, timeout_aggregator, timeouts_before, timeouts_call, timeouts_ret>>

no_votes_vars ==
    <<no_vote_pool, no_vote_aggregator, no_votes_before, no_votes_call, no_votes_ret>>

cert_lists_vars ==
    <<timeout_cert, timeout_cert_before, no_vote_cert, no_vote_cert_before,
      add_call, add_ret>>

storage_vars == <<headers, store, storage_faults>>

sync_vars ==
    <<tx_header_waiter, tx_certificate_waiter, sync_call, sync_ret, store_reads,
      capacity, core_task>>

waiter_vars == <<waiting, tx_core, delivered, waiter_task>>

node_vars == <<storage_vars, sync_vars, waiter_vars>>

aggregators_vars ==
    <<committee, clan, votes_vars, certs_vars, timeouts_vars, no_votes_vars,
      cert_lists_vars>>

vars == <<aggregators_vars, node_vars>>

\* ------------------------------------------------------- committee and clan
\* The sum of f over the members of S among lo..hi.
RECURSIVE SumRange(_, _, _, _)
SumRange(f, S, lo, hi) ==
    IF lo > hi THEN 0
    ELSE IF lo = hi THEN (IF lo \in S THEN f[lo] ELSE 0)
    ELSE LET mid == (lo + hi) \div 2
         IN SumRange(f, S, lo, mid) + SumRange(f, S, mid + 1, hi)

\* The sum of f over S, a set of authorities of f's domain 1..n.
SumOver(f, S) == SumRange(f, S, 1, Cardinality(DOMAIN f))

\* The authorities of a committee, in the canonical order.
Authorities(c) == DOMAIN c.stake

\* Committee::stake
stake(c, a) == c.stake[a]

\* Total stake of a set of authorities.
StakeOf(c, S) == SumOver(c.stake, S)

\* Q for total stake T.  The spec gives Q = ceil(2T/3) + 1 and also the least
\* stake strictly greater than 2T/3 (T = 4 gives Q = 3): both are candidates.
QuorumCandidates(T) ==
    { (2 * T) \div 3 + 1,
      (IF (2 * T) % 3 = 0 THEN (2 * T) \div 3 ELSE (2 * T) \div 3 + 1) + 1 }

\* Committee::quorum_threshold
quorum_threshold(c) == c.quorum

\* Committee::leader_list: leaders_per_round authorities, round-robin over
\* the canonical order (round 1 starts at the first authority).
leader_list(c, lpr, round) ==
    LET n == Cardinality(Authorities(c))
    IN [i \in 1..lpr |-> ((round + n - 1 + (i - 1)) % n) + 1]

\* Committee::get_bls_public_g2
get_bls_public_g2(c, a) == c.bls[a]

\* Clan::is_member
is_member(cl, a) == a \in cl.members

\* Clan::stake
clan_stake(cl, a) == cl.stake[a]

\* Clan::validity_threshold: V_clan = floor(T_clan / 3) + 1
validity_threshold(cl) == SumOver(cl.stake, cl.members) \div 3 + 1

\* Committee::get_bls_public_keys, sorted: the canonical sorted key list.
SortedSeq(S) ==
    [i \in 1..Cardinality(S) |->
        CHOOSE x \in S : Cardinality({ y \in S : y < x }) = i - 1]

\* BLS keys are even numbers, so a key is never its own position.
Reversal(n) == [a \in 1..n |-> 2 * (n + 1 - a)]
Rotation(n) == [a \in 1..n |-> 2 * ((a % n) + 1)]

sorted_bls_keys(c) == SortedSeq({ c.bls[a] : a \in Authorities(c) })

\* ------------------------------------------------------------------ words
U128_MAX == [i \in 0..(WordBits - 1) |-> TRUE]

\* 1 << bit
shl_one(bit) == [i \in 0..(WordBits - 1) |-> i = bit]

\* !w
bit_not(w) == [i \in 0..(WordBits - 1) |-> ~w[i]]

\* w & v
bit_and(w, v) == [i \in 0..(WordBits - 1) |-> w[i] /\ v[i]]

\* slice::binary_search on a sorted slice: the 0-based index of key.
RECURSIVE binary_search_from(_, _, _, _)
binary_search_from(keys, key, lo, hi) ==
    IF lo >= hi THEN -1
    ELSE LET mid == lo + (hi - lo) \div 2
         IN IF keys[mid + 1] = key THEN mid
            ELSE IF keys[mid + 1] < key
                 THEN binary_search_from(keys, key, mid + 1, hi)
                 ELSE binary_search_from(keys, key, lo, mid)

binary_search(keys, key) == binary_search_from(keys, key, 0, Len(keys))

\* -------------------------------------------------------- VotesAggregator
\* vec![u128::MAX; (total_nodes + 127) / 128]
new_bit_vec(total_nodes) ==
    [w \in 1..((total_nodes + 127) \div WordBits) |-> U128_MAX]

\* VotesAggregator::new
VotesAggregator_new(keys, total_nodes) ==
    [ committee_weight |-> 0,
      clan_weight |-> 0,
      votes |-> <<>>,
      used |-> {},
      agg_sign |-> {},
      pk_bit_vec |-> new_bit_vec(total_nodes),
      sorted_keys |-> keys ]

\* crypto::aggregate_sign: the shares folded so far.
aggregate_sign(agg, sig) == agg \cup sig

\* clear_bit with the bit number taken from the quotient as well.
clear_bit_quotient(vec, id) ==
    LET chunk == id \div WordBits
        bit == id \div WordBits
    IN [vec EXCEPT ![chunk + 1] = bit_and(vec[chunk + 1], bit_not(shl_one(bit)))]

\* let chunk = id / 128; let bit = id % 128; pk_bit_vec[chunk] &= !(1 << bit)
clear_bit(vec, id) ==
    LET chunk == id \div WordBits
        bit == id % WordBits
    IN [vec EXCEPT ![chunk + 1] = bit_and(vec[chunk + 1], bit_not(shl_one(bit)))]

\* votes_quorum without the clan's validity threshold.
votes_quorum_no_clan(self, c, cl) ==
    self.committee_weight >= quorum_threshold(c)

\* votes_quorum with both weights compared to the clan's threshold.
votes_quorum_one_threshold(self, c, cl) ==
    /\ self.committee_weight >= validity_threshold(cl)
    /\ self.clan_weight >= validity_threshold(cl)

\* votes_quorum with a strict comparison of the committee weight.
votes_quorum_strict(self, c, cl) ==
    /\ self.committee_weight > quorum_threshold(c)
    /\ self.clan_weight >= validity_threshold(cl)

\* The test that emits the certificate.
votes_quorum(self, c, cl) ==
    /\ self.committee_weight >= quorum_threshold(c)
    /\ self.clan_weight >= validity_threshold(cl)

\* first_vote without the check of the used-set.
first_vote_unchecked(self, author) == TRUE

\* ensure!(self.used.insert(author), ..): is this the author's first vote?
first_vote(self, author) == author \notin self.used

\* committee_weight after vote's stake is added
add_committee_weight(self, c, author) == self.committee_weight + stake(c, author)

\* clan_weight after the vote
add_clan_weight(self, cl, author) ==
    IF is_member(cl, author) THEN self.clan_weight + clan_stake(cl, author)
    ELSE self.clan_weight

\* latch_weight that keeps the weight.
latch_weight_kept(w) == w

\* committee_weight once the certificate is made
latch_weight(w) == 0

\* VotesAggregator::append: the aggregator after the call and what is returned.
VotesAggregator_append(self, vote, c, cl) ==
    LET author == vote.author
        author_bls == get_bls_public_g2(c, author)
    IN IF ~first_vote(self, author)
       THEN [self |-> self, ret |-> [kind |-> "AuthorityReuse", author |-> author]]
       ELSE
         LET votes1 == Append(self.votes, <<author_bls, vote.signature>>)
             id == binary_search(self.sorted_keys, author_bls)
             s1 == [self EXCEPT
                      !.used = self.used \cup {author},
                      !.votes = votes1,
                      !.committee_weight = add_committee_weight(self, c, author),
                      !.clan_weight = add_clan_weight(self, cl, author),
                      !.pk_bit_vec = clear_bit(self.pk_bit_vec, id),
                      !.agg_sign = IF Len(votes1) = 1 THEN vote.signature
                                   ELSE aggregate_sign(self.agg_sign, vote.signature)]
         IN IF votes_quorum(s1, c, cl)
            THEN [self |-> [s1 EXCEPT !.committee_weight = latch_weight(s1.committee_weight)],
                  ret |-> [kind |-> "Certificate",
                           header_id |-> vote.id,
                           round |-> vote.round,
                           origin |-> vote.origin,
                           votes |-> <<s1.pk_bit_vec, s1.agg_sign>>]]
            ELSE [self |-> s1, ret |-> [kind |-> "None"]]

\* ------------------------------------------------- CertificatesAggregator
\* CertificatesAggregator::new
CertificatesAggregator_new == [weight |-> 0, certificates |-> <<>>, used |-> {}]

\* first_certificate without the check of the used-set.
first_certificate_unchecked(self, origin) == TRUE

\* if !self.used.insert(origin): is this the origin's first certificate?
first_certificate(self, origin) == origin \notin self.used

\* push_certificate at the front of the list.
push_certificate_front(certs, certificate) == <<certificate>> \o certs

\* self.certificates.push(certificate.clone())
push_certificate(certs, certificate) == Append(certs, certificate)

\* all_leaders_seen satisfied by one leader.
all_leaders_seen_any(self, leaders) ==
    \E i \in DOMAIN leaders : leaders[i] \in self.used

\* for leader in leaders.iter() { if !self.used.contains(leader) { return Ok(None) } }
all_leaders_seen(self, leaders) ==
    \A i \in DOMAIN leaders : leaders[i] \in self.used

\* self.weight >= committee.quorum_threshold()
certs_quorum(self, c) == self.weight >= quorum_threshold(c)

\* drain with the reset of the weight that the code has commented out.
drain_and_reset(self) == [self EXCEPT !.certificates = <<>>, !.weight = 0]

\* self.certificates.drain(..): the list is emptied; the weight stays.
drain(self) == [self EXCEPT !.certificates = <<>>]

\* CertificatesAggregator::append
CertificatesAggregator_append(self, certificate, c, lpr) ==
    LET origin == certificate.origin
    IN IF ~first_certificate(self, origin)
       THEN [self |-> self, ret |-> [kind |-> "None"]]
       ELSE
         LET round == certificate.round
             s1 == [self EXCEPT
                      !.used = self.used \cup {origin},
                      !.certificates = push_certificate(self.certificates, certificate),
                      !.weight = self.weight + stake(c, origin)]
             leaders == leader_list(c, lpr, round)
         IN IF ~all_leaders_seen(s1, leaders)
            THEN [self |-> s1, ret |-> [kind |-> "None"]]
            ELSE IF certs_quorum(s1, c)
            THEN [self |-> drain(s1),
                  ret |-> [kind |-> "Batch", certificates |-> s1.certificates]]
            ELSE [self |-> s1, ret |-> [kind |-> "None"]]

\* A certificate of a header (header_id, round, origin).
Certificate(header_id, round, origin) ==
    [header_id |-> header_id, round |-> round, origin |-> origin]

\* ------------------------------------------------------ TimeoutAggregator
\* TimeoutAggregator::new
TimeoutAggregator_new == [weight |-> 0, timeouts |-> <<>>, used |-> {}]

\* first_timeout without the test: every timeout counts as a first one.
first_timeout_unchecked(self, author) == TRUE

\* ensure!(self.used.insert(author), ..): is this the author's first timeout?
first_timeout(self, author) == author \notin self.used

\* timeouts_quorum with a strict comparison.
timeouts_quorum_strict(self, c) == self.weight > quorum_threshold(c)

\* self.weight >= committee.quorum_threshold()
timeouts_quorum(self, c) == self.weight >= quorum_threshold(c)

\* TimeoutAggregator::append
TimeoutAggregator_append(self, timeout, c) ==
    LET author == timeout.author
    IN IF ~first_timeout(self, author)
       THEN [self |-> self, ret |-> [kind |-> "AuthorityReuse", author |-> author]]
       ELSE
         LET s1 == [self EXCEPT
                      !.used = self.used \cup {author},
                      !.timeouts = Append(self.timeouts, <<author, timeout.signature>>),
                      !.weight = self.weight + stake(c, author)]
         IN IF timeouts_quorum(s1, c)
            THEN [self |-> s1,
                  ret |-> [kind |-> "TimeoutCert",
                           round |-> timeout.round,
                           timeouts |-> s1.timeouts]]
            ELSE [self |-> s1, ret |-> [kind |-> "None"]]

\* A timeout of round by author, with the author's signature over it.
Timeout(round, author) ==
    [round |-> round, author |-> author, signature |-> <<"sig", author, round>>]

\* ------------------------------------------------------ NoVoteAggregator
\* NoVoteAggregator::new
NoVoteAggregator_new == [weight |-> 0, no_votes |-> <<>>, used |-> {}]

\* ensure!(self.used.insert(author), ..): is this the author's first no-vote?
first_no_vote(self, author) == author \notin self.used

\* no_votes_quorum that holds at the quorum threshold only: a latch.
no_votes_quorum_once(self, c) == self.weight = quorum_threshold(c)

\* no_votes_quorum with a strict comparison.
no_votes_quorum_strict(self, c) == self.weight > quorum_threshold(c)

\* self.weight >= committee.quorum_threshold()
no_votes_quorum(self, c) == self.weight >= quorum_threshold(c)

\* NoVoteAggregator::append
NoVoteAggregator_append(self, no_vote_msg, c) ==
    LET author == no_vote_msg.author
    IN IF ~first_no_vote(self, author)
       THEN [self |-> self, ret |-> [kind |-> "AuthorityReuse", author |-> author]]
       ELSE
         LET s1 == [self EXCEPT
                      !.used = self.used \cup {author},
                      !.no_votes = Append(self.no_votes, <<author, no_vote_msg.signature>>),
                      !.weight = self.weight + stake(c, author)]
         IN IF no_votes_quorum(s1, c)
            THEN [self |-> s1,
                  ret |-> [kind |-> "NoVoteCert",
                           round |-> no_vote_msg.round,
                           no_votes |-> s1.no_votes]]
            ELSE [self |-> s1, ret |-> [kind |-> "None"]]

\* A no-vote message of round by author, with the author's signature over it.
NoVoteMsg(round, author) ==
    [round |-> round, author |-> author, signature |-> <<"sig", author, round>>]

\* ------------------------------------------------- TimeoutCert, NoVoteCert
\* TimeoutCert::new
TimeoutCert_new(round) == [round |-> round, timeouts |-> <<>>]

\* any_timeout looking at the last entry only.
any_timeout_last(self, author) ==
    self.timeouts # <<>> /\ self.timeouts[Len(self.timeouts)] = author

\* self.timeouts.iter().any(|pk| *pk == author)
any_timeout(self, author) == \E i \in DOMAIN self.timeouts : self.timeouts[i] = author

\* TimeoutCert::add_timeout
TimeoutCert_add_timeout(self, author) ==
    IF any_timeout(self, author)
    THEN [self |-> self, ret |-> [kind |-> "AuthorityReuse", author |-> author]]
    ELSE [self |-> [self EXCEPT !.timeouts = Append(self.timeouts, author)],
          ret |-> [kind |-> "Ok"]]

\* NoVoteCert::new
NoVoteCert_new(round) == [round |-> round, no_votes |-> <<>>]

\* self.no_votes.iter().any(|pk| *pk == author)
any_no_vote(self, author) == \E i \in DOMAIN self.no_votes : self.no_votes[i] = author

\* NoVoteCert::add_no_vote
NoVoteCert_add_no_vote(self, author) ==
    IF any_no_vote(self, author)
    THEN [self |-> self, ret |-> [kind |-> "AuthorityReuse", author |-> author]]
    ELSE [self |-> [self EXCEPT !.no_votes = Append(self.no_votes, author)],
          ret |-> [kind |-> "Ok"]]

\* ------------------------------------------------------------- Storage
\* Store::read without a failure: the value under the key, if there is one.
Store_read(st, key) ==
    IF key \in DOMAIN st THEN [kind |-> "Some", value |-> st[key]] ELSE [kind |-> "None"]

\* Store::write
Store_write(st, key, value) ==
    [k \in DOMAIN st \cup {key} |-> IF k = key THEN value ELSE st[k]]

\* ------------------------------------------------------------- headers
\* A header: author, round, parents and id (its digest).
Header(author, round, parents, id) ==
    [author |-> author, round |-> round, parents |-> parents, id |-> id]

\* The digest of the genesis header of an authority.
GenesisDigest(a) == a

\* Header::genesis(committee): one header of round 0 per authority.
Header_genesis(c) ==
    [a \in Authorities(c) |-> Header(a, 0, {}, GenesisDigest(a))]

\* A BTreeSet<Digest> in its iteration order.
iter(set) == SortedSeq(set)

\* ---------------------------------------------------------- Synchronizer
\* Synchronizer::new: genesis is the list of (id, header) pairs.
Synchronizer_new(c) ==
    [genesis |-> [i \in DOMAIN Header_genesis(c) |->
                     <<Header_genesis(c)[i].id, Header_genesis(c)[i]>>]]

\* find_genesis finding nothing.
find_genesis_none(self, parent) == {}

\* self.genesis.iter().find(|(x, _)| x == parent): the positions found.
find_genesis(self, parent) == { i \in DOMAIN self.genesis : self.genesis[i][1] = parent }

\* any_genesis answering no.
any_genesis_none(self, cert) == FALSE

\* self.genesis.iter().any(|(x, _)| x == cert)
any_genesis(self, cert) == \E i \in DOMAIN self.genesis : self.genesis[i][1] = cert

\* reads_to reading again the key at which the loop returns.
reads_to_retry(looked_up, stops) ==
    IF stops = {} THEN looked_up
    ELSE LET first == CHOOSE i \in stops : \A j \in stops : i <= j
         IN Append(SubSeq(looked_up, 1, first), looked_up[first])

\* The keys read by a loop that reads the keys of looked_up in order, one
\* read each, and returns at the first position in stops.
reads_to(looked_up, stops) ==
    IF stops = {} THEN looked_up
    ELSE SubSeq(looked_up, 1, CHOOSE i \in stops : \A j \in stops : i <= j)

\* send_sync_parents sending nothing.
send_sync_parents_dropped(missing, header_msg) == <<>>

\* self.tx_header_waiter.send(WaiterMessage::SyncParents(missing, header_msg)):
\* the messages that join the channel.
send_sync_parents(missing, header_msg) ==
    <<[kind |-> "SyncParents", missing |-> missing, header |-> header_msg]>>

\* Synchronizer::get_parents when the reads of the keys in failing fail.
\* ret is what is returned, header_waiter what is sent to the HeaderWaiter,
\* reads the keys read from Storage.
get_parents(self, header_msg, st, failing) ==
    LET h_parents == iter(header_msg.parents)
        looked_up == SelectSeq(h_parents, LAMBDA p : find_genesis(self, p) = {})
        missing == SelectSeq(looked_up, LAMBDA p : Store_read(st, p).kind = "None")
        parents ==
            [i \in DOMAIN h_parents |->
                IF find_genesis(self, h_parents[i]) # {}
                THEN self.genesis[CHOOSE g \in find_genesis(self, h_parents[i]) : TRUE][2]
                ELSE Store_read(st, h_parents[i]).value]
        reads == reads_to(looked_up, { i \in DOMAIN looked_up : looked_up[i] \in failing })
    IN IF \E i \in DOMAIN looked_up : looked_up[i] \in failing
       THEN [ret |-> [kind |-> "Err"], header_waiter |-> <<>>, reads |-> reads]
       ELSE IF missing = <<>>
       THEN [ret |-> [kind |-> "Ok", parents |-> parents], header_waiter |-> <<>>,
             reads |-> reads]
       ELSE [ret |-> [kind |-> "Ok", parents |-> <<>>],
             header_waiter |-> send_sync_parents(missing, header_msg),
             reads |-> reads]

\* Synchronizer::deliver_certificate when the reads of the keys in failing
\* fail.  ret is what is returned, certificate_waiter what is sent to the
\* CertificateWaiter, reads the keys read from Storage.
deliver_certificate(self, certificate, st, failing) ==
    LET key == certificate.header_id
    IN IF key \in failing
       THEN [ret |-> [kind |-> "panic"], certificate_waiter |-> <<>>, reads |-> <<key>>]
       ELSE IF Store_read(st, key).kind = "Some"
       THEN
         LET parents == iter(Store_read(st, key).value.parents)
             looked_up == SelectSeq(parents, LAMBDA cert : ~any_genesis(self, cert))
             \* the reads up to the first one that fails or finds nothing
             stops == { i \in DOMAIN looked_up :
                          \/ looked_up[i] \in failing
                          \/ Store_read(st, looked_up[i]).kind = "None" }
             first == CHOOSE i \in stops : \A j \in stops : i <= j
             reads == <<key>> \o reads_to(looked_up, stops)
         IN IF stops = {}
            THEN [ret |-> [kind |-> "Ok", value |-> TRUE], certificate_waiter |-> <<>>,
                  reads |-> reads]
            ELSE IF looked_up[first] \in failing
            THEN [ret |-> [kind |-> "Err"], certificate_waiter |-> <<>>, reads |-> reads]
            ELSE [ret |-> [kind |-> "Ok", value |-> FALSE],
                  certificate_waiter |-> <<certificate>>, reads |-> reads]
       ELSE [ret |-> [kind |-> "Ok", value |-> FALSE],
             certificate_waiter |-> <<certificate>>, reads |-> <<key>>]

\* ------------------------------------------------------ CertificateWaiter
\* wait_for naming the header id whether or not the header is stored.
wait_for_header_only(certificate, st) == {certificate.header_id}

\* CertificateWaiter::run, the keys the future of a received certificate
\* waits for: the parents of its header if Storage holds the header, the
\* header id if not.
wait_for(certificate, st) ==
    LET key == certificate.header_id
    IN IF Store_read(st, key).kind = "Some"
       THEN Store_read(st, key).value.parents
       ELSE {key}

\* waiter_ready but for a future without keys, which stays pending.
waiter_ready_some(missing, st) == missing # {} /\ \A key \in missing : key \in DOMAIN st

\* waiter_ready as soon as one notify_read has resolved.
waiter_ready_any(missing, st) == \E key \in missing : key \in DOMAIN st

\* CertificateWaiter::waiter: try_join_all is ready when the notify_read of
\* every key has resolved, which it does once the key is in Storage.
waiter_ready(missing, st) == \A key \in missing : key \in DOMAIN st

\* A storage failure that is logged, the task running on.
storage_failure_logged(certificate, sent) ==
    [status |-> "running", certificate |-> certificate, sent |-> sent]

\* panic!("Storage failure: killing node."), and the unwrap of a failed read:
\* the task ends, having lost certificate after sending sent certificates.
storage_failure(certificate, sent) ==
    [status |-> "panicked", certificate |-> certificate, sent |-> sent]

\* remove taking every copy of the i-th element with it.
remove_copies(seq, i) == SelectSeq(seq, LAMBDA x : x # seq[i])

\* A sequence without its i-th element.
remove(seq, i) == SubSeq(seq, 1, i - 1) \o SubSeq(seq, i + 1, Len(seq))

\* Vote::new for a header (id, round, origin), signed by author.
Vote(id, round, origin, author) ==
    [id |-> id, round |-> round, origin |-> origin, author |-> author,
     signature |-> {<<author, id>>}]

\* ------------------------------------------------------------ committees
\* Small committees: every stake vector, the origin's clan a prefix of the
\* canonical order (the origin is authority 1), both key orders.
SmallCommittees ==
    { [stake |-> st, bls |-> b, quorum |-> q] :
        st \in UNION { [1..n -> 1..MaxStake] : n \in 1..MaxN },
        b \in UNION { {Reversal(n), Rotation(n)} : n \in 1..MaxN },
        q \in 1..(2 * MaxN * MaxStake) }

WellFormed(c) ==
    /\ DOMAIN c.bls = DOMAIN c.stake
    /\ c.quorum \in QuorumCandidates(StakeOf(c, Authorities(c)))

\* Sizes of committees that fill one bitmap word or need a second one.
LargeSizes == {WordBits, WordBits + MaxN - 1}

\* The authorities whose messages arrive: all of a small committee, a
\* sample of a large one.
Senders(c) ==
    LET n == Cardinality(Authorities(c))
    IN IF n < WordBits THEN Authorities(c) ELSE {1, n - 2, n - 1, n}

ClanOf(c, k) == [members |-> 1..k, stake |-> [a \in 1..k |-> c.stake[a]]]

CommitteeInit ==
    /\ committee \in { c \in SmallCommittees : WellFormed(c) }
    /\ \E k \in 1..Cardinality(Authorities(committee)) : clan = ClanOf(committee, k)

\* ----------------------------------------------------- votes: the machine
VotesInit ==
    /\ vote_pool = { Vote(1, 1, 1, a) : a \in Senders(committee) }
    /\ votes_aggregator =
          VotesAggregator_new(sorted_bls_keys(committee),
                              Cardinality(Authorities(committee)))
    /\ votes_before = votes_aggregator
    /\ votes_call = [author |-> 0]
    /\ votes_ret = [kind |-> "init"]
    /\ votes_emitted = 0
    /\ votes_log = <<>>

\* The votes for two headers that the origin has proposed in round 1, one
\* vote per authority and header: the Core keeps one aggregator per round
\* and origin.
VotesTwoHeadersInit ==
    /\ vote_pool = { Vote(id, 1, 1, a) : id \in 1..2, a \in Senders(committee) }
    /\ votes_aggregator =
          VotesAggregator_new(sorted_bls_keys(committee),
                              Cardinality(Authorities(committee)))
    /\ votes_before = votes_aggregator
    /\ votes_call = [author |-> 0]
    /\ votes_ret = [kind |-> "init"]
    /\ votes_emitted = 0
    /\ votes_log = <<>>

\* No vote arrives: the aggregator of an empty key list.
VotesIdle ==
    /\ vote_pool = {}
    /\ votes_aggregator = VotesAggregator_new(<<>>, 0)
    /\ votes_before = votes_aggregator
    /\ votes_call = [author |-> 0]
    /\ votes_ret = [kind |-> "init"]
    /\ votes_emitted = 0
    /\ votes_log = <<>>

\* The Core feeds one vote to the aggregator.
VotesAppend ==
    \E vote \in vote_pool :
        LET r == VotesAggregator_append(votes_aggregator, vote, committee, clan)
        IN /\ votes_aggregator' = r.self
           /\ votes_before' = votes_aggregator
           /\ votes_ret' = r.ret
           /\ votes_call' = vote
           /\ votes_emitted' =
                 IF r.ret.kind = "Certificate" THEN votes_emitted + 1 ELSE votes_emitted
           /\ votes_log' =
                 IF r.ret.kind = "AuthorityReuse" THEN votes_log ELSE Append(votes_log, vote)
           /\ UNCHANGED <<committee, clan, vote_pool, certs_vars, timeouts_vars,
                          no_votes_vars, cert_lists_vars, node_vars>>

\* ---------------------------------------------- certificates: the machine
\* The certificates of one round: one per authority, and a second one (of
\* another header) from the first authority.
CertsInit ==
    /\ leaders_per_round \in 1..Cardinality(Authorities(committee))
    /\ \E round \in 1..MaxRound :
          cert_pool = { Certificate(a, round, a) : a \in Senders(committee) }
                        \cup { Certificate(0, round, 1) }
    /\ certificates_aggregator = CertificatesAggregator_new
    /\ certs_before = certificates_aggregator
    /\ certs_call = [origin |-> 0]
    /\ certs_ret = [kind |-> "init"]
    /\ certs_log = <<>>
    /\ certs_drained = 0

CertsIdle ==
    /\ leaders_per_round = 1
    /\ cert_pool = {}
    /\ certificates_aggregator = CertificatesAggregator_new
    /\ certs_before = certificates_aggregator
    /\ certs_call = [origin |-> 0]
    /\ certs_ret = [kind |-> "init"]
    /\ certs_log = <<>>
    /\ certs_drained = 0

\* The Core feeds one certificate to the round's aggregator.
CertsAppend ==
    \E certificate \in cert_pool :
        LET r == CertificatesAggregator_append(certificates_aggregator, certificate,
                                               committee, leaders_per_round)
        IN /\ certificates_aggregator' = r.self
           /\ certs_before' = certificates_aggregator
           /\ certs_call' = certificate
           /\ certs_ret' = r.ret
           /\ certs_log' =
                 IF certificate.origin \in certificates_aggregator.used THEN certs_log
                 ELSE Append(certs_log, certificate)
           /\ certs_drained' =
                 IF certs_ret.kind = "Batch"
                 THEN certs_drained + Len(certs_ret.certificates)
                 ELSE certs_drained
           /\ UNCHANGED <<committee, clan, leaders_per_round, cert_pool,
                          votes_vars, timeouts_vars, no_votes_vars, cert_lists_vars,
                          node_vars>>

\* -------------------------------------------------- timeouts: the machine
\* The timeouts of one round, one per authority.
TimeoutsInit ==
    /\ \E round \in 1..MaxRound :
          timeout_pool = { Timeout(round, a) : a \in Senders(committee) }
    /\ timeout_aggregator = TimeoutAggregator_new
    /\ timeouts_before = timeout_aggregator
    /\ timeouts_call = [author |-> 0]
    /\ timeouts_ret = [kind |-> "init"]

TimeoutsIdle ==
    /\ timeout_pool = {}
    /\ timeout_aggregator = TimeoutAggregator_new
    /\ timeouts_before = timeout_aggregator
    /\ timeouts_call = [author |-> 0]
    /\ timeouts_ret = [kind |-> "init"]

\* The Core feeds one timeout to the round's aggregator.
TimeoutsAppend ==
    \E timeout \in timeout_pool :
        LET r == TimeoutAggregator_append(timeout_aggregator, timeout, committee)
        IN /\ timeout_aggregator' = r.self
           /\ timeouts_before' = timeout_aggregator
           /\ timeouts_call' = timeout
           /\ timeouts_ret' = r.ret
           /\ UNCHANGED <<committee, clan, timeout_pool, votes_vars, certs_vars,
                          no_votes_vars, cert_lists_vars,
                          node_vars>>

\* -------------------------------------------------- no-votes: the machine
\* The no-vote messages of round 1, one per authority, and those of the
\* other rounds from the first authority.
NoVotesInit ==
    /\ no_vote_pool =
          { NoVoteMsg(1, a) : a \in Senders(committee) }
            \cup { NoVoteMsg(round, 1) : round \in 1..MaxRound }
    /\ no_vote_aggregator = NoVoteAggregator_new
    /\ no_votes_before = no_vote_aggregator
    /\ no_votes_call = [author |-> 0]
    /\ no_votes_ret = [kind |-> "init"]

NoVotesIdle ==
    /\ no_vote_pool = {}
    /\ no_vote_aggregator = NoVoteAggregator_new
    /\ no_votes_before = no_vote_aggregator
    /\ no_votes_call = [author |-> 0]
    /\ no_votes_ret = [kind |-> "init"]

\* The timeouts of round 1, one per authority, and those of the other
\* rounds from the first authority.
TimeoutsMixedRoundsInit ==
    /\ timeout_pool =
          { Timeout(1, a) : a \in Senders(committee) }
            \cup { Timeout(round, 1) : round \in 1..MaxRound }
    /\ timeout_aggregator = TimeoutAggregator_new
    /\ timeouts_before = timeout_aggregator
    /\ timeouts_call = [author |-> 0]
    /\ timeouts_ret = [kind |-> "init"]

\* The Core feeds a timeout to the TimeoutAggregator and the no-vote message
\* of the same round and author to the NoVoteAggregator.
SideBySideAppend ==
    \E timeout \in timeout_pool, no_vote_msg \in no_vote_pool :
        /\ no_vote_msg.round = timeout.round
        /\ no_vote_msg.author = timeout.author
        /\ LET t == TimeoutAggregator_append(timeout_aggregator, timeout, committee)
               n == NoVoteAggregator_append(no_vote_aggregator, no_vote_msg, committee)
           IN /\ timeout_aggregator' = t.self
              /\ timeouts_before' = timeout_aggregator
              /\ timeouts_call' = timeout
              /\ timeouts_ret' = t.ret
              /\ no_vote_aggregator' = n.self
              /\ no_votes_before' = no_vote_aggregator
              /\ no_votes_call' = no_vote_msg
              /\ no_votes_ret' = n.ret
              /\ UNCHANGED <<committee, clan, timeout_pool, no_vote_pool,
                             votes_vars, certs_vars, cert_lists_vars, node_vars>>

\* ------------------------------------------- certificate lists: the machine
\* TimeoutCert::new(round) and NoVoteCert::new(round)
CertListsInit ==
    /\ \E round \in 1..MaxRound :
          /\ timeout_cert = TimeoutCert_new(round)
          /\ no_vote_cert = NoVoteCert_new(round)
    /\ timeout_cert_before = timeout_cert
    /\ no_vote_cert_before = no_vote_cert
    /\ add_call = [op |-> "new", author |-> 0]
    /\ add_ret = [kind |-> "init"]

CertListsIdle ==
    /\ timeout_cert = TimeoutCert_new(1)
    /\ no_vote_cert = NoVoteCert_new(1)
    /\ timeout_cert_before = timeout_cert
    /\ no_vote_cert_before = no_vote_cert
    /\ add_call = [op |-> "new", author |-> 0]
    /\ add_ret = [kind |-> "init"]

\* timeout_cert.add_timeout(author)
AddTimeout ==
    \E author \in Authorities(committee) :
        LET r == TimeoutCert_add_timeout(timeout_cert, author)
        IN /\ timeout_cert' = r.self
           /\ timeout_cert_before' = timeout_cert
           /\ add_call' = [op |-> "add_timeout", author |-> author]
           /\ add_ret' = r.ret
           /\ UNCHANGED <<committee, clan, no_vote_cert, no_vote_cert_before,
                          votes_vars, certs_vars, timeouts_vars, no_votes_vars,
                          node_vars>>

\* no_vote_cert.add_no_vote(author)
AddNoVote ==
    \E author \in Authorities(committee) :
        LET r == NoVoteCert_add_no_vote(no_vote_cert, author)
        IN /\ no_vote_cert' = r.self
           /\ no_vote_cert_before' = no_vote_cert
           /\ add_call' = [op |-> "add_no_vote", author |-> author]
           /\ add_ret' = r.ret
           /\ UNCHANGED <<committee, clan, timeout_cert, timeout_cert_before,
                          votes_vars, certs_vars, timeouts_vars, no_votes_vars,
                          node_vars>>

\* ------------------------------------------------------ the node: machine
\* CHANNEL_CAPACITY: every channel of the node holds this many messages.
CHANNEL_CAPACITY == 1000

\* The capacity of the channels when they are scaled down to be filled.
MaxCapacity == 1

\* The digests of the genesis headers.
GenesisDigests == { GenesisDigest(a) : a \in Authorities(committee) }

\* The ids of the other headers: header h is of round h - N.
HeaderIds ==
    (Cardinality(Authorities(committee)) + 1)
       .. (Cardinality(Authorities(committee)) + MaxHeaders)

Keys == GenesisDigests \cup HeaderIds

\* The parent sets a header can have: none, one or all genesis headers,
\* the header of the round before, alone or with a genesis header.
ParentChoices(h) ==
    {{}, {GenesisDigest(1)}, GenesisDigests}
      \cup (IF h - 1 \in HeaderIds THEN {{h - 1}, {GenesisDigest(1), h - 1}} ELSE {})

\* The DAGs: every header has all genesis headers as its parents, but for
\* one that has any of its parent sets.
HeaderTables ==
    { [h \in HeaderIds |->
          Header(1, h - Cardinality(Authorities(committee)),
                 IF h = other THEN parents ELSE GenesisDigests, h)] :
        <<other, parents>> \in
            UNION { {h} \X ParentChoices(h) : h \in HeaderIds } }

\* The header a digest is the digest of.
HeaderOf(key) ==
    IF key \in GenesisDigests
    THEN Header_genesis(committee)[CHOOSE a \in Authorities(committee) :
                                      GenesisDigest(a) = key]
    ELSE headers[key]

\* The certificate of a header.
CertificateOf(h) == Certificate(h, headers[h].round, headers[h].author)

\* An empty Storage, with or without failures to come.
StorageInit ==
    /\ headers \in HeaderTables
    /\ store = <<>>
    /\ storage_faults \in BOOLEAN

\* An empty Storage that does not fail.
SoundStorageInit ==
    /\ headers \in HeaderTables
    /\ store = <<>>
    /\ storage_faults = FALSE

StorageIdle ==
    /\ headers = <<>>
    /\ store = <<>>
    /\ storage_faults = FALSE

SyncInit ==
    /\ tx_header_waiter = <<>>
    /\ tx_certificate_waiter = <<>>
    /\ sync_call = [op |-> "new"]
    /\ sync_ret = [kind |-> "init"]
    /\ store_reads = <<>>
    /\ capacity = CHANNEL_CAPACITY
    /\ core_task = [status |-> "running"]

WaiterInit ==
    /\ waiting = <<>>
    /\ tx_core = <<>>
    /\ delivered = <<>>
    /\ waiter_task = [status |-> "running"]

NodeIdle == StorageIdle /\ SyncInit /\ WaiterInit

\* Some task writes a header under its id.
StorageWrite ==
    \E key \in Keys \ DOMAIN store :
        /\ store' = Store_write(store, key, HeaderOf(key))
        /\ UNCHANGED <<headers, storage_faults, sync_vars, waiter_vars, aggregators_vars>>

\* The reads that fail during one call that reads keys: none, or those of
\* one of the keys.
Failures(keys) == IF storage_faults THEN {{}} \cup { {key} : key \in keys } ELSE {{}}

\* The messages sent to the waiters so far.
Sent ==
    Len(tx_header_waiter) + Len(tx_certificate_waiter) + Len(waiting) + Len(delivered)

\* Most messages the Synchronizer sends in one run: with channels scaled
\* down, as many as fill both channels and suspend both senders.
SentLimit == IF capacity = CHANNEL_CAPACITY THEN MaxSent ELSE 2 * capacity + 2

\* The Core calls get_parents for a header it has received.
GetParents ==
    /\ sync_ret.kind # "panic"
    /\ core_task.status = "running"
    /\ \E h \in HeaderIds :
       \E failing \in Failures(headers[h].parents) :
          LET r == get_parents(Synchronizer_new(committee), headers[h], store, failing)
          IN /\ Sent + Len(r.header_waiter) <= SentLimit
             /\ tx_header_waiter' = tx_header_waiter \o r.header_waiter
             /\ sync_call' = [op |-> "get_parents", header |-> headers[h]]
             /\ sync_ret' = r.ret
             /\ store_reads' = r.reads
             /\ UNCHANGED <<tx_certificate_waiter, capacity, core_task, storage_vars,
                            waiter_vars, aggregators_vars>>

\* The Core hands a certificate to deliver_certificate.  A send to a full
\* channel suspends the Core, in the call, until the channel has room; a
\* send to a CertificateWaiter that has panicked fails, and the expect
\* panics.
ProcessCertificate(certificate, failing) ==
    LET r == deliver_certificate(Synchronizer_new(committee), certificate, store, failing)
        closed == r.certificate_waiter # <<>> /\ waiter_task.status = "panicked"
        full == /\ r.certificate_waiter # <<>>
                /\ ~closed
                /\ Len(tx_certificate_waiter) >= capacity
    IN /\ Sent + Len(r.certificate_waiter) <= SentLimit
       /\ tx_certificate_waiter' =
             IF closed \/ full THEN tx_certificate_waiter
             ELSE tx_certificate_waiter \o r.certificate_waiter
       /\ sync_call' = [op |-> "deliver_certificate", certificate |-> certificate]
       /\ sync_ret' = IF closed THEN [kind |-> "panic"]
                      ELSE IF full THEN [kind |-> "pending"]
                      ELSE r.ret
       /\ store_reads' = r.reads
       /\ core_task' = IF full THEN [status |-> "sending", certificate |-> certificate]
                       ELSE core_task
       /\ UNCHANGED <<tx_header_waiter, capacity>>

\* The Core calls deliver_certificate for a certificate it has received
\* from the network.
DeliverCertificate ==
    /\ sync_ret.kind # "panic"
    /\ core_task.status = "running"
    /\ \E h \in HeaderIds :
       \E failing \in Failures({h} \cup headers[h].parents) :
          /\ ProcessCertificate(CertificateOf(h), failing)
          /\ UNCHANGED <<storage_vars, waiter_vars, aggregators_vars>>

\* The Core takes a certificate that the CertificateWaiter has looped back
\* and submits it to deliver_certificate again.
CoreLoopback ==
    /\ sync_ret.kind # "panic"
    /\ core_task.status = "running"
    /\ tx_core # <<>>
    /\ \E failing \in Failures({Head(tx_core).header_id}
                                 \cup headers[Head(tx_core).header_id].parents) :
          /\ ProcessCertificate(Head(tx_core), failing)
          /\ tx_core' = Tail(tx_core)
          /\ UNCHANGED <<waiting, delivered, waiter_task, storage_vars, aggregators_vars>>

\* The channel to the CertificateWaiter has room again: the send in which
\* the Core is suspended completes and deliver_certificate returns false.
CoreSend ==
    /\ core_task.status = "sending"
    /\ Len(tx_certificate_waiter) < capacity
    /\ tx_certificate_waiter' = Append(tx_certificate_waiter, core_task.certificate)
    /\ sync_ret' = [kind |-> "Ok", value |-> FALSE]
    /\ core_task' = [status |-> "running"]
    /\ UNCHANGED <<tx_header_waiter, sync_call, store_reads, capacity, storage_vars,
                   waiter_vars, aggregators_vars>>

\* CertificateWaiter::run, the branch of rx_synchronizer.recv(): the header
\* of the certificate is read and a future waiting for its dependencies
\* joins the pool.  A read that fails panics; the pool goes with the task.
WaiterReceive ==
    /\ waiter_task.status = "running"
    /\ tx_certificate_waiter # <<>>
    /\ LET certificate == Head(tx_certificate_waiter)
       IN \E failing \in Failures({certificate.header_id}) :
             /\ tx_certificate_waiter' = Tail(tx_certificate_waiter)
             /\ IF failing # {}
                THEN /\ waiter_task' = storage_failure(certificate, Len(tx_core))
                     /\ waiting' = <<>>
                ELSE /\ waiting' =
                          Append(waiting, [wait_for |-> wait_for(certificate, store),
                                           deliver |-> certificate])
                     /\ UNCHANGED waiter_task
             /\ UNCHANGED <<tx_core, delivered, tx_header_waiter, sync_call, sync_ret, store_reads,
                            capacity, core_task,
                            storage_vars, aggregators_vars>>

\* CertificateWaiter::run, the branch of waiting.next(): a future that is
\* ready gives its certificate, which is sent to the Core, the task being
\* suspended in the send while the channel is full; a future one of whose
\* notify_read failed gives the error, and the task panics.
WaiterNext ==
    /\ waiter_task.status = "running"
    /\ \E i \in DOMAIN waiting :
          \/ /\ waiter_ready(waiting[i].wait_for, store)
             /\ Len(tx_core) < capacity
             /\ tx_core' = Append(tx_core, waiting[i].deliver)
             /\ delivered' = Append(delivered, waiting[i])
             /\ waiting' = remove(waiting, i)
             /\ UNCHANGED waiter_task
          \/ /\ waiter_ready(waiting[i].wait_for, store)
             /\ Len(tx_core) >= capacity
             /\ waiter_task' = [status |-> "sending", holding |-> waiting[i]]
             /\ waiting' = remove(waiting, i)
             /\ UNCHANGED <<tx_core, delivered>>
          \/ /\ storage_faults
             /\ waiting[i].wait_for # {}
             /\ waiter_task' = storage_failure(waiting[i].deliver, Len(tx_core))
             /\ waiting' = <<>>
             /\ UNCHANGED <<tx_core, delivered>>
    /\ UNCHANGED <<sync_vars, storage_vars, aggregators_vars>>

\* The channel to the Core has room again: the send in which the
\* CertificateWaiter is suspended completes.
WaiterSend ==
    /\ waiter_task.status = "sending"
    /\ Len(tx_core) < capacity
    /\ tx_core' = Append(tx_core, waiter_task.holding.deliver)
    /\ delivered' = Append(delivered, waiter_task.holding)
    /\ waiter_task' = [status |-> "running"]
    /\ UNCHANGED <<waiting, sync_vars, storage_vars, aggregators_vars>>

\* ------------------------------------------------------ the specifications
\* No aggregator is fed.
AggregatorsIdle ==
    VotesIdle /\ CertsIdle /\ TimeoutsIdle /\ NoVotesIdle /\ CertListsIdle

\* Two primaries of equal stake.
TwoPrimariesInit ==
    /\ committee =
          [stake |-> [a \in 1..2 |-> 1], bls |-> Reversal(2),
           quorum |-> CHOOSE q \in QuorumCandidates(2) :
                         \A r \in QuorumCandidates(2) : q <= r]
    /\ clan = ClanOf(committee, 2)

SpecSynchronizerInit ==
    TwoPrimariesInit /\ AggregatorsIdle /\ StorageInit /\ SyncInit /\ WaiterInit

SpecSynchronizerNext == StorageWrite \/ GetParents \/ DeliverCertificate

SpecSynchronizer == SpecSynchronizerInit /\ [][SpecSynchronizerNext]_vars

\* The Synchronizer has handed certificates to the CertificateWaiter while
\* Storage was empty.
HandedInit ==
    /\ tx_header_waiter = <<>>
    /\ tx_certificate_waiter \in
          UNION { [1..n -> { CertificateOf(h) : h \in HeaderIds }] : n \in 0..MaxQueue }
    /\ sync_call = [op |-> "new"]
    /\ sync_ret = [kind |-> "init"]
    /\ store_reads = <<>>
    /\ capacity = CHANNEL_CAPACITY
    /\ core_task = [status |-> "running"]

SpecWaiterInit ==
    TwoPrimariesInit /\ AggregatorsIdle /\ StorageInit /\ HandedInit /\ WaiterInit

SpecWaiterNext == StorageWrite \/ WaiterReceive \/ WaiterNext

SpecWaiter == SpecWaiterInit /\ [][SpecWaiterNext]_vars

\* The waiter with a Storage that does not fail.  The runtime polls both
\* branches of the select! whenever the task is woken, and wakes it when a
\* message is in the channel or a future is ready: neither branch stays
\* enabled forever without being taken.
FairSpecWaiterInit ==
    TwoPrimariesInit /\ AggregatorsIdle /\ SoundStorageInit /\ HandedInit /\ WaiterInit

FairSpecWaiter ==
    /\ FairSpecWaiterInit
    /\ [][SpecWaiterNext]_vars
    /\ WF_vars(WaiterReceive)
    /\ WF_vars(WaiterNext)

\* Scenario S4: two primaries; primary 1 has stored header H of round 1,
\* whose parents are the two genesis headers.  Storage holds any of the
\* other keys (first run: both genesis digests; second run: G2 is not
\* there), does not fail, and the other tasks go on writing.
S4Header == Cardinality(Authorities(committee)) + 1

S4StorageInit ==
    /\ headers \in { t \in HeaderTables : t[S4Header].parents = GenesisDigests }
    /\ \E stored \in SUBSET (Keys \ {S4Header}) :
          store = [key \in stored \cup {S4Header} |-> HeaderOf(key)]
    /\ storage_faults = FALSE

S4Init ==
    TwoPrimariesInit /\ AggregatorsIdle /\ S4StorageInit /\ SyncInit /\ WaiterInit

S4Next == StorageWrite \/ DeliverCertificate \/ WaiterReceive \/ WaiterNext

SpecS4 ==
    /\ S4Init
    /\ [][S4Next]_vars
    /\ WF_vars(WaiterReceive)
    /\ WF_vars(WaiterNext)

\* The Core handing certificates to the Synchronizer while the
\* CertificateWaiter runs and the other tasks write to a Storage that does
\* not fail: a genesis digest may be written or never be.  Both branches of
\* the waiter's select! are fair, as in FairSpecWaiter.
SpecLoopbackInit ==
    TwoPrimariesInit /\ AggregatorsIdle /\ SoundStorageInit /\ SyncInit /\ WaiterInit

SpecLoopbackNext == StorageWrite \/ DeliverCertificate \/ WaiterReceive \/ WaiterNext

SpecLoopback ==
    /\ SpecLoopbackInit
    /\ [][SpecLoopbackNext]_vars
    /\ WF_vars(WaiterReceive)
    /\ WF_vars(WaiterNext)

\* The Core and the CertificateWaiter with channels scaled down from
\* CHANNEL_CAPACITY, so that they fill: the Core takes certificates from the
\* network and from the waiter, and each send waits for room.  Every header
\* has the genesis headers as its parents.
ScaledChannelsInit ==
    /\ tx_header_waiter = <<>>
    /\ tx_certificate_waiter = <<>>
    /\ sync_call = [op |-> "new"]
    /\ sync_ret = [kind |-> "init"]
    /\ store_reads = <<>>
    /\ capacity \in 1..MaxCapacity
    /\ core_task = [status |-> "running"]

SpecChannelsInit ==
    /\ TwoPrimariesInit /\ AggregatorsIdle /\ SoundStorageInit
    /\ \A h \in HeaderIds : headers[h].parents = GenesisDigests
    /\ ScaledChannelsInit /\ WaiterInit

SpecChannelsNext ==
    \/ StorageWrite
    \/ DeliverCertificate
    \/ CoreSend
    \/ CoreLoopback
    \/ WaiterReceive
    \/ WaiterNext
    \/ WaiterSend

SpecChannels == SpecChannelsInit /\ [][SpecChannelsNext]_vars

\* A committee without clans: the clan is the whole committee.
PlainCommitteeInit ==
    /\ committee \in { c \in SmallCommittees : WellFormed(c) /\ c.bls = Reversal(Cardinality(Authorities(c))) }
    /\ clan = ClanOf(committee, Cardinality(Authorities(committee)))

SpecCertsInit ==
    PlainCommitteeInit /\ VotesIdle /\ CertsInit /\ TimeoutsIdle /\ NoVotesIdle
      /\ CertListsIdle /\ NodeIdle

SpecCertsNext == CertsAppend

SpecCerts == SpecCertsInit /\ [][SpecCertsNext]_vars

SpecTimeoutsInit ==
    PlainCommitteeInit /\ VotesIdle /\ CertsIdle /\ TimeoutsInit /\ NoVotesIdle
      /\ CertListsIdle /\ NodeIdle

SpecTimeoutsNext == TimeoutsAppend

SpecTimeouts == SpecTimeoutsInit /\ [][SpecTimeoutsNext]_vars

SpecVotesInit ==
    CommitteeInit /\ VotesInit /\ CertsIdle /\ TimeoutsIdle /\ NoVotesIdle
      /\ CertListsIdle /\ NodeIdle

SpecVotesNext == VotesAppend

SpecVotes == SpecVotesInit /\ [][SpecVotesNext]_vars

SpecVotesTwoHeadersInit ==
    PlainCommitteeInit /\ VotesTwoHeadersInit /\ CertsIdle /\ TimeoutsIdle /\ NoVotesIdle
      /\ CertListsIdle /\ NodeIdle

SpecVotesTwoHeaders == SpecVotesTwoHeadersInit /\ [][SpecVotesNext]_vars

SpecSideBySideInit ==
    PlainCommitteeInit /\ VotesIdle /\ CertsIdle /\ TimeoutsMixedRoundsInit /\ NoVotesInit
      /\ CertListsIdle /\ NodeIdle

SpecSideBySideNext == SideBySideAppend

SpecSideBySide == SpecSideBySideInit /\ [][SpecSideBySideNext]_vars

\* The authorities of a committee of MaxN equal stakes as the authors.
AuthorsInit ==
    /\ committee \in { c \in SmallCommittees :
                          /\ WellFormed(c)
                          /\ c.stake = [a \in 1..MaxN |-> 1]
                          /\ c.bls = Reversal(MaxN) }
    /\ clan = ClanOf(committee, MaxN)

SpecCertListsInit ==
    AuthorsInit /\ VotesIdle /\ CertsIdle /\ TimeoutsIdle /\ NoVotesIdle
      /\ CertListsInit /\ NodeIdle

SpecCertListsNext == AddTimeout \/ AddNoVote

SpecCertLists == SpecCertListsInit /\ [][SpecCertListsNext]_vars

\* Equal-stake committees in a single clan under every order of the keys
\* (small committees) or two of them (large ones).
KeyOrders(n) ==
    IF n < WordBits
    THEN { [a \in 1..n |-> 2 * f[a]] :
             f \in { g \in [1..n -> 1..n] : \A a, b \in 1..n : a # b => g[a] # g[b] } }
    ELSE {Reversal(n), Rotation(n)}

BitmapInit ==
    /\ \E n \in (1..MaxN) \cup LargeSizes :
          committee \in { [stake |-> [a \in 1..n |-> 1], bls |-> b, quorum |-> q] :
                            b \in KeyOrders(n), q \in QuorumCandidates(n) }
    /\ clan = ClanOf(committee, Cardinality(Authorities(committee)))
    /\ VotesInit /\ CertsIdle /\ TimeoutsIdle /\ NoVotesIdle /\ CertListsIdle
    /\ NodeIdle

SpecBitmap == BitmapInit /\ [][SpecVotesNext]_vars

\* Scenario S1: four equal-stake authorities in a single clan.
S1Init ==
    /\ committee \in { [stake |-> [a \in 1..4 |-> 1], bls |-> b, quorum |-> q] :
                         b \in {Reversal(4), Rotation(4)},
                         q \in QuorumCandidates(4) }
    /\ clan = ClanOf(committee, 4)
    /\ VotesInit /\ CertsIdle /\ TimeoutsIdle /\ NoVotesIdle /\ CertListsIdle
    /\ NodeIdle

SpecS1 == S1Init /\ [][SpecVotesNext]_vars

\* ------------------------------------------------- votes: what is claimed
\* The authorities whose vote has been accepted.
Voters == votes_aggregator.used

\* The stake accumulated by a set S of voters reaches both thresholds.
ThresholdsMet(S) ==
    /\ StakeOf(committee, S) >= quorum_threshold(committee)
    /\ SumOver(clan.stake, S \cap clan.members) >= validity_threshold(clan)

\* The 0-based position of an authority's BLS key in the sorted key list.
Position(a) ==
    CHOOSE i \in 0..(Len(votes_aggregator.sorted_keys) - 1) :
        votes_aggregator.sorted_keys[i + 1] = committee.bls[a]

\* The bit positions of a bitmap that hold 0.
Cleared(vec) ==
    { i \in 0..(Len(vec) * WordBits - 1) : ~vec[i \div WordBits + 1][i % WordBits] }

\* The authorities a bitmap names as contributors.
Contributors(vec) == { a \in Authorities(committee) : Position(a) \in Cleared(vec) }

\* The authorities whose vote had been accepted before the last append.
VotersBefore == votes_before.used

\* C1: the append that first brings the voters' stake to Q and their stake
\* in the origin's clan to V_clan returns a Certificate, and no append
\* returns one before both hold, whatever the committee-wide stake.
C1_EmitsAtFirstQuorum ==
    votes_ret.kind # "init" =>
      /\ (ThresholdsMet(Voters) /\ ~ThresholdsMet(VotersBefore))
            => votes_ret.kind = "Certificate"
      /\ votes_ret.kind = "Certificate" => ThresholdsMet(Voters)

\* A certificate made by a vote of the clan after the other voters alone had
\* reached Q.
C1_Witness ==
    /\ votes_ret.kind = "Certificate"
    /\ StakeOf(committee, VotersBefore) >= quorum_threshold(committee)

\* How many calls had returned a Certificate before the last append.
EmittedBefore ==
    IF votes_ret.kind = "Certificate" THEN votes_emitted - 1 ELSE votes_emitted

\* C2: over all appends at most one returns a Certificate, and an append by
\* a fresh author after the certificate returns Ok(None).
C2_EmitsOnce ==
    /\ votes_emitted <= 1
    /\ (EmittedBefore >= 1 /\ votes_call.author \notin VotersBefore)
          => votes_ret.kind = "None"

\* A fresh author's vote absorbed after the certificate.
C2_Witness ==
    /\ votes_emitted = 1
    /\ votes_ret.kind = "None"
    /\ votes_call.author \notin VotersBefore

\* C3: an append by an author who has already voted returns
\* AuthorityReuse(author) and changes no field of the aggregator; an append
\* by a fresh author returns Ok.
C3_DuplicateRejected ==
    votes_ret.kind # "init" =>
      /\ votes_call.author \in VotersBefore
           => /\ votes_ret = [kind |-> "AuthorityReuse", author |-> votes_call.author]
              /\ votes_aggregator = votes_before
      /\ votes_call.author \notin VotersBefore
           => votes_ret.kind \in {"None", "Certificate"}

\* A duplicate rejected after the certificate was made.
C3_Witness ==
    /\ votes_ret.kind = "AuthorityReuse"
    /\ votes_emitted = 1
    /\ votes_aggregator.committee_weight = 0

\* C4: a returned Certificate is valid on its own bitmap: the authorities
\* whose bit is 0 hold stake >= Q, those of them in the origin's clan hold
\* stake >= V_clan.
C4_CertificateValid ==
    votes_ret.kind = "Certificate" => ThresholdsMet(Contributors(votes_ret.votes[1]))

\* A certificate to which not every authority contributed.
C4_Witness ==
    /\ votes_ret.kind = "Certificate"
    /\ Contributors(votes_ret.votes[1]) # Authorities(committee)
    /\ Contributors(votes_ret.votes[1]) # {}

\* ceil(n / 128)
WordsFor(n) == IF n % WordBits = 0 THEN n \div WordBits ELSE n \div WordBits + 1

\* The bitmap has ceil(N/128) words and its 0 bits are the positions of the
\* voters' keys.
BitmapTracksVoters ==
    /\ Len(votes_aggregator.pk_bit_vec) = WordsFor(Cardinality(Authorities(committee)))
    /\ Cleared(votes_aggregator.pk_bit_vec) = { Position(a) : a \in Voters }

\* C5: the bitmap has ceil(N/128) words, bit i is 0 exactly when the
\* authority whose key is at position i has had a vote accepted (so all
\* bits start at 1 and bits at positions >= N stay 1), and no bit goes back
\* to 1.
C5_Bitmap ==
    /\ BitmapTracksVoters
    /\ Cleared(votes_before.pk_bit_vec) \subseteq Cleared(votes_aggregator.pk_bit_vec)

\* Bits cleared in both words of a two-word bitmap.
C5_Witness ==
    /\ Len(votes_aggregator.pk_bit_vec) = 2
    /\ \E i, j \in Cleared(votes_aggregator.pk_bit_vec) : i < WordBits /\ j > WordBits

\* C6: in scenario S1 with Q = 3 (V_clan = 2), no certificate is returned
\* for the first two voters, and the third voter's append returns the one
\* certificate, whose bitmap has the three voters' bits 0 and one of the
\* four authorities' bits 1.
C6_ScenarioS1 ==
    (quorum_threshold(committee) = 3 /\ validity_threshold(clan) = 2) =>
      /\ Cardinality(Voters) <= 2 => votes_emitted = 0
      /\ Cardinality(Voters) >= 3 => votes_emitted = 1
      /\ (Cardinality(Voters) = 3 /\ votes_ret.kind # "AuthorityReuse")
            => /\ votes_ret.kind = "Certificate"
               /\ Cleared(votes_ret.votes[1]) = { Position(a) : a \in Voters }
               /\ Cardinality(Cleared(votes_ret.votes[1])) = 3
               /\ Cardinality({ i \in 0..3 : i \notin Cleared(votes_ret.votes[1]) }) = 1

\* The third voter's certificate in scenario S1.
C6_Witness ==
    /\ quorum_threshold(committee) = 3
    /\ validity_threshold(clan) = 2
    /\ Cardinality(Authorities(committee)) = 4
    /\ Cardinality(Voters) = 3
    /\ votes_ret.kind = "Certificate"

\* ------------------------------------------ certificates: what is claimed
\* The origins whose certificate has been accepted, now and before the
\* last append.
Origins == certificates_aggregator.used

OriginsBefore == certs_before.used

\* The leaders of the round of the last certificate fed.
Leaders ==
    LET l == leader_list(committee, leaders_per_round, certs_call.round)
    IN { l[i] : i \in DOMAIN l }

\* Every leader's certificate is among those of S, whose stake reaches Q.
RoundComplete(S) ==
    /\ Leaders \subseteq S
    /\ StakeOf(committee, S) >= quorum_threshold(committee)

\* C7: append returns a batch only when every leader of the round has a
\* certificate accepted and the accepted origins' stake is >= Q; while a
\* leader is missing or the stake is below Q it returns None; and the append
\* that first makes both true returns every certificate accepted so far.
C7_BatchNeedsLeadersAndQuorum ==
    certs_ret.kind # "init" =>
      /\ certs_ret.kind = "Batch" => RoundComplete(Origins)
      /\ ~RoundComplete(Origins) => certs_ret.kind = "None"
      /\ (RoundComplete(Origins) /\ ~RoundComplete(OriginsBefore))
            => /\ certs_ret.kind = "Batch"
               /\ certs_ret.certificates = certs_log

\* The last leader's certificate arrives after the others had reached Q.
C7_Witness ==
    /\ certs_ret.kind = "Batch"
    /\ Len(certs_ret.certificates) >= 2
    /\ StakeOf(committee, OriginsBefore) >= quorum_threshold(committee)
    /\ leaders_per_round >= 2

\* C8: a certificate of an origin already accepted is ignored: the call
\* returns Ok(None) and leaves weight, used-set and certificate list as they
\* were, so the weight is the stake of the accepted origins, each once.
C8_DuplicateIgnored ==
    /\ (certs_ret.kind # "init" /\ certs_call.origin \in OriginsBefore)
          => /\ certs_ret = [kind |-> "None"]
             /\ certificates_aggregator = certs_before
    /\ certificates_aggregator.weight = StakeOf(committee, Origins)

\* Another certificate of an accepted origin, ignored although the round is
\* complete.
C8_Witness ==
    /\ certs_ret.kind = "None"
    /\ certs_call.origin \in OriginsBefore
    /\ \A i \in DOMAIN certs_log : certs_log[i] # certs_call
    /\ RoundComplete(OriginsBefore)

\* C9: a returned batch lists the certificates accepted since the last
\* batch in the order of their acceptance, no origin twice.
C9_BatchInInsertionOrder ==
    certs_ret.kind = "Batch" =>
      /\ certs_ret.certificates = SubSeq(certs_log, certs_drained + 1, Len(certs_log))
      /\ \A i, j \in DOMAIN certs_ret.certificates :
            i # j => certs_ret.certificates[i].origin # certs_ret.certificates[j].origin

\* A batch whose acceptance order is not the order of the origins.
C9_Witness ==
    /\ certs_ret.kind = "Batch"
    /\ \E i, j \in DOMAIN certs_ret.certificates :
          i < j /\ certs_ret.certificates[i].origin > certs_ret.certificates[j].origin

\* ---------------------------------------------- timeouts: what is claimed
\* The authors of the entries of a TimeoutCert's list.
CertAuthors(timeouts) == { timeouts[i][1] : i \in DOMAIN timeouts }

\* C10: append returns no TimeoutCert while the stake of the distinct
\* authors is below Q, returns one on the append that first brings it to
\* >= Q, and a returned TimeoutCert has pairwise distinct authors whose
\* stake is >= Q.
C10_TimeoutCertAtQuorum ==
    timeouts_ret.kind # "init" =>
      /\ StakeOf(committee, timeout_aggregator.used) < quorum_threshold(committee)
            => timeouts_ret.kind # "TimeoutCert"
      /\ ( /\ StakeOf(committee, timeout_aggregator.used) >= quorum_threshold(committee)
           /\ StakeOf(committee, timeouts_before.used) < quorum_threshold(committee) )
            => timeouts_ret.kind = "TimeoutCert"
      /\ timeouts_ret.kind = "TimeoutCert"
            => /\ \A i, j \in DOMAIN timeouts_ret.timeouts :
                     i # j => timeouts_ret.timeouts[i][1] # timeouts_ret.timeouts[j][1]
               /\ StakeOf(committee, CertAuthors(timeouts_ret.timeouts))
                     >= quorum_threshold(committee)

\* The first TimeoutCert, reached exactly at Q by several authors.
C10_Witness ==
    /\ timeouts_ret.kind = "TimeoutCert"
    /\ StakeOf(committee, timeouts_before.used) < quorum_threshold(committee)
    /\ StakeOf(committee, timeout_aggregator.used) = quorum_threshold(committee)
    /\ Len(timeouts_ret.timeouts) >= 2

\* C11: a timeout whose author was already accepted gets
\* AuthorityReuse(author) and leaves weight, used-set and timeout list as
\* they were, before and after the quorum has been reached.
C11_TimeoutDuplicateRejected ==
    (timeouts_ret.kind # "init" /\ timeouts_call.author \in timeouts_before.used)
      => /\ timeouts_ret = [kind |-> "AuthorityReuse", author |-> timeouts_call.author]
         /\ timeout_aggregator.weight = timeouts_before.weight
         /\ timeout_aggregator.used = timeouts_before.used
         /\ timeout_aggregator.timeouts = timeouts_before.timeouts

\* A repeated author rejected once the accepted stake has reached Q.
C11_Witness ==
    /\ timeouts_ret.kind = "AuthorityReuse"
    /\ timeouts_call.author \in timeouts_before.used
    /\ timeouts_before.weight >= quorum_threshold(committee)
    /\ timeouts_before.used # Authorities(committee)

\* ---------------------------------------------- no-votes: what is claimed
\* The authors of the entries of an aggregator's list, in order.
AuthorList(entries) == [i \in DOMAIN entries |-> entries[i][1]]

\* C12: fed the same (round, author) inputs, the TimeoutAggregator and the
\* NoVoteAggregator give the same outcome at every step (Ok(None), the same
\* AuthorityReuse, or a certificate of the same round and author list) and
\* hold equal weights and used-sets.
C12_SameShape ==
    /\ timeout_aggregator.weight = no_vote_aggregator.weight
    /\ timeout_aggregator.used = no_vote_aggregator.used
    /\ timeouts_ret.kind = "init" <=> no_votes_ret.kind = "init"
    /\ timeouts_ret.kind = "None" <=> no_votes_ret.kind = "None"
    /\ timeouts_ret.kind = "AuthorityReuse" <=> no_votes_ret.kind = "AuthorityReuse"
    /\ timeouts_ret.kind = "AuthorityReuse" => timeouts_ret.author = no_votes_ret.author
    /\ timeouts_ret.kind = "TimeoutCert" <=> no_votes_ret.kind = "NoVoteCert"
    /\ timeouts_ret.kind = "TimeoutCert"
          => /\ timeouts_ret.round = no_votes_ret.round
             /\ AuthorList(timeouts_ret.timeouts) = AuthorList(no_votes_ret.no_votes)

\* Both return a certificate of several authors whose messages are of
\* different rounds.
C12_Witness ==
    /\ timeouts_ret.kind = "TimeoutCert"
    /\ no_votes_ret.kind = "NoVoteCert"
    /\ \E i, j \in DOMAIN no_votes_ret.no_votes :
          no_votes_ret.no_votes[i][2][3] # no_votes_ret.no_votes[j][2][3]
    /\ no_vote_aggregator.weight = quorum_threshold(committee)

\* ------------------------------------- certificate lists: what is claimed
\* No entry of a list occurs twice.
NoDuplicates(list) == \A i, j \in DOMAIN list : i # j => list[i] # list[j]

\* C20: after any sequence of add_timeout (add_no_vote) calls from
\* new(round) no author is in the list twice: a call with an author already
\* in the list returns AuthorityReuse(author) and leaves the list as it was,
\* a call with a fresh author appends it at the end and returns Ok.
C20_NoAuthorTwice ==
    /\ NoDuplicates(timeout_cert.timeouts)
    /\ NoDuplicates(no_vote_cert.no_votes)
    /\ add_call.op = "add_timeout" =>
          IF \E i \in DOMAIN timeout_cert_before.timeouts :
                timeout_cert_before.timeouts[i] = add_call.author
          THEN /\ add_ret = [kind |-> "AuthorityReuse", author |-> add_call.author]
               /\ timeout_cert = timeout_cert_before
          ELSE /\ add_ret = [kind |-> "Ok"]
               /\ timeout_cert.timeouts =
                     Append(timeout_cert_before.timeouts, add_call.author)
               /\ timeout_cert.round = timeout_cert_before.round
    /\ add_call.op = "add_no_vote" =>
          IF \E i \in DOMAIN no_vote_cert_before.no_votes :
                no_vote_cert_before.no_votes[i] = add_call.author
          THEN /\ add_ret = [kind |-> "AuthorityReuse", author |-> add_call.author]
               /\ no_vote_cert = no_vote_cert_before
          ELSE /\ add_ret = [kind |-> "Ok"]
               /\ no_vote_cert.no_votes =
                     Append(no_vote_cert_before.no_votes, add_call.author)
               /\ no_vote_cert.round = no_vote_cert_before.round

\* An author that is in the list, but not at its end, is rejected by
\* add_timeout, the no-vote list holding several authors too.
C20_Witness ==
    /\ add_call.op = "add_timeout"
    /\ add_ret.kind = "AuthorityReuse"
    /\ Len(timeout_cert.timeouts) >= 2
    /\ timeout_cert.timeouts[1] = add_call.author
    /\ Len(no_vote_cert.no_votes) >= 2

\* ------------------------------------------ synchronizer: what is claimed
\* A step in which the Synchronizer's op is called.
SyncStep(op) == sync_call'.op = op /\ sync_vars' # sync_vars

\* The entries of a sequence.
Range(seq) == { seq[i] : i \in DOMAIN seq }

\* The parents of a header that are not genesis headers and not in Storage.
Absent(header) == { p \in header.parents \ GenesisDigests : p \notin DOMAIN store }

\* C13: get_parents resolves a genesis parent to the local genesis header
\* without a Storage read and never reports it missing; if a non-genesis
\* parent is absent from Storage it sends exactly one SyncParents whose
\* missing list is the set of absent non-genesis parents and returns the
\* empty list; otherwise it sends nothing and returns one resolved header
\* per parent.
C13_GetParents ==
    [][SyncStep("get_parents") =>
         LET header == sync_call'.header
         IN /\ tx_certificate_waiter' = tx_certificate_waiter
            /\ sync_ret'.kind = "Err" => header.parents \ GenesisDigests # {}
            /\ sync_ret'.kind = "Err" => tx_header_waiter' = tx_header_waiter
            /\ sync_ret'.kind # "Err" =>
                  IF Absent(header) # {}
                  THEN /\ sync_ret' = [kind |-> "Ok", parents |-> <<>>]
                       /\ \E missing \in [1..Cardinality(Absent(header)) -> Absent(header)] :
                             /\ Range(missing) = Absent(header)
                             /\ tx_header_waiter' =
                                   Append(tx_header_waiter,
                                          [kind |-> "SyncParents", missing |-> missing,
                                           header |-> header])
                  ELSE /\ tx_header_waiter' = tx_header_waiter
                       /\ sync_ret'.kind = "Ok"
                       /\ Len(sync_ret'.parents) = Cardinality(header.parents)
                       /\ \A p \in header.parents :
                             /\ HeaderOf(p) \in Range(sync_ret'.parents)
                             /\ p \notin GenesisDigests => store[p] = HeaderOf(p)
      ]_vars

\* A SyncParents for a header with an absent parent and a genesis parent
\* that is not in Storage either.
C13_Witness ==
    /\ sync_call.op = "get_parents"
    /\ sync_ret = [kind |-> "Ok", parents |-> <<>>]
    /\ Absent(sync_call.header) # {}
    /\ \E g \in sync_call.header.parents \cap GenesisDigests : g \notin DOMAIN store
    /\ tx_header_waiter # <<>>
    /\ tx_header_waiter[Len(tx_header_waiter)].header = sync_call.header

\* Is everything a certificate needs in Storage: its header, and every
\* parent of the header that is not a genesis header?
Ready(certificate) ==
    /\ certificate.header_id \in DOMAIN store
    /\ \A p \in store[certificate.header_id].parents :
          p \in GenesisDigests \/ p \in DOMAIN store

\* C14: deliver_certificate returns true and sends nothing exactly when the
\* certificate's header is in Storage and each of its parents is a genesis
\* digest or in Storage; otherwise it returns false and hands one copy of
\* the certificate to the CertificateWaiter.
C14_DeliverCertificate ==
    [][(SyncStep("deliver_certificate") /\ sync_ret'.kind = "Ok") =>
         LET certificate == sync_call'.certificate
         IN /\ tx_header_waiter' = tx_header_waiter
            /\ Ready(certificate) =>
                  /\ sync_ret'.value = TRUE
                  /\ tx_certificate_waiter' = tx_certificate_waiter
            /\ ~Ready(certificate) =>
                  /\ sync_ret'.value = FALSE
                  /\ tx_certificate_waiter' = Append(tx_certificate_waiter, certificate)
      ]_vars

\* Not ready: the header is stored, a parent of an earlier round is not, and
\* a genesis parent is not in Storage either.
C14_Witness ==
    /\ sync_call.op = "deliver_certificate"
    /\ sync_ret = [kind |-> "Ok", value |-> FALSE]
    /\ sync_call.certificate.header_id \in DOMAIN store
    /\ Absent(store[sync_call.certificate.header_id]) # {}
    /\ \E g \in store[sync_call.certificate.header_id].parents \cap GenesisDigests :
          g \notin DOMAIN store
    /\ tx_certificate_waiter # <<>>
    /\ tx_certificate_waiter[Len(tx_certificate_waiter)] = sync_call.certificate

\* ------------------------------------- certificate waiter: what is claimed
\* The keys a certificate depends on, as Storage is now: the parents of its
\* header if the header is stored, the header id if not.
Dependencies(certificate) ==
    IF certificate.header_id \in DOMAIN store
    THEN HeaderOf(certificate.header_id).parents
    ELSE {certificate.header_id}

\* C15: the CertificateWaiter fixes the dependencies of a certificate when
\* it receives it: the parents of the header if Storage holds the header
\* at that moment, the header id alone if not; no later step changes them.
C15_DependenciesFixed ==
    [][IF Len(tx_certificate_waiter') < Len(tx_certificate_waiter)
          /\ waiter_task' = waiter_task
       THEN waiting' =
              Append(waiting,
                     [wait_for |-> Dependencies(Head(tx_certificate_waiter)),
                      deliver |-> Head(tx_certificate_waiter)])
       ELSE \A i \in DOMAIN waiting' : \E j \in DOMAIN waiting : waiting'[i] = waiting[j]
      ]_vars

\* Two copies of a certificate wait, the first for the header id, though the
\* header has been written since, the second for the parents, a genesis
\* header among them.
C15_Witness ==
    \E i, j \in DOMAIN waiting :
        /\ i < j
        /\ waiting[i].deliver = waiting[j].deliver
        /\ waiting[i].wait_for = {waiting[i].deliver.header_id}
        /\ waiting[j].wait_for = HeaderOf(waiting[j].deliver.header_id).parents
        /\ waiting[j].wait_for \cap GenesisDigests # {}

\* C16: every certificate that the waiter has sent to the Core had all the
\* keys of its dependency set in Storage.
C16_DeliveredAfterDependencies ==
    /\ Len(tx_core) = Len(delivered)
    /\ \A i \in DOMAIN delivered :
          /\ tx_core[i] = delivered[i].deliver
          /\ delivered[i].wait_for \subseteq DOMAIN store

\* A certificate sent after its two dependencies were written, another
\* one still waiting for a key.
C16_Witness ==
    /\ \E i \in DOMAIN delivered : Cardinality(delivered[i].wait_for) = 2
    /\ \E i \in DOMAIN waiting : ~(waiting[i].wait_for \subseteq DOMAIN store)

\* The pending futures all of whose dependencies are in Storage.
ReadyPending == { i \in DOMAIN waiting : waiting[i].wait_for \subseteq DOMAIN store }

\* C17: under fair scheduling every certificate in the channel is parked
\* and every parked certificate whose dependencies are all in Storage is
\* sent to the Core, whatever the order of the writes and whatever else is
\* pending, and without a further write if they were all there when it was
\* parked: a future leaves the pool only by its certificate being sent, and
\* again and again no future that is ready is pending.
C17_EventuallyDelivered ==
    /\ [][Len(waiting') < Len(waiting) =>
            \E i \in DOMAIN waiting :
                /\ waiting' = remove(waiting, i)
                /\ tx_core' = Append(tx_core, waiting[i].deliver)]_vars
    /\ []<>(tx_certificate_waiter = <<>> /\ ReadyPending = {})

\* The only certificate sent so far waited for two keys; another one is
\* still pending, a key of its dependencies not written.
C17_Witness ==
    /\ \E i \in DOMAIN delivered : Cardinality(delivered[i].wait_for) = 2
    /\ \E i \in DOMAIN waiting : ~(waiting[i].wait_for \subseteq DOMAIN store)
    /\ ~storage_faults
    /\ Len(tx_core) = 1

\* C19: a Storage failure while the waiter reads the header of a received
\* certificate or waits for a dependency ends the task: the certificate is
\* not sent to the Core, nor is any certificate afterwards.
C19_StorageFailureIsFatal ==
    "certificate" \in DOMAIN waiter_task =>
      /\ waiter_task.status = "panicked"
      /\ Len(tx_core) = waiter_task.sent
      /\ Len(delivered) = waiter_task.sent

\* The task has panicked after sending a certificate; the certificate it
\* lost has all its dependencies in Storage.
C19_Witness ==
    /\ waiter_task.status = "panicked"
    /\ waiter_task.sent >= 1
    /\ Dependencies(waiter_task.certificate) \subseteq DOMAIN store
    /\ Dependencies(waiter_task.certificate) # {}

\* ---------------------------------------------------------------- C18
\* The certificate of header H is with the CertificateWaiter: in its
\* channel or in its pool.
S4Parked ==
    \/ CertificateOf(S4Header) \in Range(tx_certificate_waiter)
    \/ \E i \in DOMAIN waiting : waiting[i].deliver = CertificateOf(S4Header)

\* C18: scenario S4.  With H stored and its parents the genesis headers G1
\* and G2, deliver_certificate(Cert(H)) returns true at once and sends
\* nothing when G2's digest is in Storage; when G2's digest is not in
\* Storage it returns false and the certificate goes to the
\* CertificateWaiter; and a certificate of H that is with the waiter is
\* sent to the Core once G2's digest has been written.
C18_ScenarioS4 ==
    /\ [][( /\ SyncStep("deliver_certificate")
            /\ waiter_vars' = waiter_vars
            /\ sync_call'.certificate = CertificateOf(S4Header)
            /\ S4Header \in DOMAIN store
            /\ GenesisDigest(1) \in DOMAIN store )
          => IF GenesisDigest(2) \in DOMAIN store
             THEN /\ sync_ret' = [kind |-> "Ok", value |-> TRUE]
                  /\ tx_certificate_waiter' = tx_certificate_waiter
             ELSE /\ sync_ret' = [kind |-> "Ok", value |-> FALSE]
                  /\ tx_certificate_waiter' =
                        Append(tx_certificate_waiter, CertificateOf(S4Header))]_vars
    /\ (S4Parked /\ GenesisDigest(2) \in DOMAIN store)
          ~> (CertificateOf(S4Header) \in Range(tx_core))

\* ---------------------------------------------------------------- C21
\* The keys a call of the Synchronizer may look up: the parents of the
\* header, or the header id of the certificate and the parents of the
\* stored header.
Lookups(call) ==
    IF call.op = "get_parents" THEN call.header.parents
    ELSE {call.certificate.header_id}
           \cup (IF call.certificate.header_id \in DOMAIN store
                 THEN store[call.certificate.header_id].parents ELSE {})

\* The messages a step sends to the two waiters.
SentBy(before_header, after_header, before_certificate, after_certificate) ==
    (Len(after_header) - Len(before_header))
       + (Len(after_certificate) - Len(before_certificate))

\* C21: a call of get_parents or deliver_certificate leaves Storage as it
\* is; it reads no key twice and no genesis digest, only keys it has to
\* look up; it sends a message to a waiter exactly when it returns without
\* an error and one of its reads found nothing, and then one message only;
\* a call that returns without an error and sends nothing has read every
\* non-genesis key it had to look up.
C21_StorageUntouched ==
    [][(SyncStep("get_parents") \/ SyncStep("deliver_certificate")) =>
         LET sent == SentBy(tx_header_waiter, tx_header_waiter',
                            tx_certificate_waiter, tx_certificate_waiter')
             found_nothing == \E key \in Range(store_reads') : key \notin DOMAIN store
         IN /\ store' = store
            /\ headers' = headers
            /\ NoDuplicates(store_reads')
            /\ Range(store_reads') \subseteq Lookups(sync_call') \ GenesisDigests
            /\ sent \in {0, 1}
            /\ sent = 1 <=> (sync_ret'.kind = "Ok" /\ found_nothing)
            /\ (sync_ret'.kind = "Ok" /\ sent = 0) =>
                  Range(store_reads') = Lookups(sync_call') \ GenesisDigests]_vars

\* deliver_certificate has read the stored header, whose parents are a
\* genesis digest and a header that is not stored, and has handed the
\* certificate to the CertificateWaiter; Storage holds what it held.
C21_Witness ==
    /\ sync_call.op = "deliver_certificate"
    /\ Len(store_reads) = 2
    /\ store_reads[1] = sync_call.certificate.header_id
    /\ store_reads[1] \in DOMAIN store
    /\ store_reads[2] \notin DOMAIN store
    /\ store[store_reads[1]].parents \cap GenesisDigests # {}
    /\ sync_ret = [kind |-> "Ok", value |-> FALSE]
    /\ tx_certificate_waiter = <<sync_call.certificate>>

\* ---------------------------------------------------------------- C22
\* The certificates with the CertificateWaiter, in its channel or its
\* pool, for which the Synchronizer's readiness condition holds.
ReadyParked ==
    { certificate \in Range(tx_certificate_waiter)
                        \cup { waiting[i].deliver : i \in DOMAIN waiting } :
        Ready(certificate) }

\* C22: the Synchronizer and the CertificateWaiter agree on readiness.  A
\* pending future whose certificate the Synchronizer would find ready (its
\* header stored, every parent a genesis digest or stored) is itself ready,
\* whatever was written between the two reads and whether or not the
\* genesis digests are ever written; so every certificate handed to the
\* waiter is sent to the Core once the Synchronizer's condition holds.
C22_AgreeOnReadiness ==
    /\ [](\A i \in DOMAIN waiting :
             Ready(waiting[i].deliver) => waiter_ready(waiting[i].wait_for, store))
    /\ []<>(ReadyParked = {})

\* ---------------------------------------------------------------- C24
\* The certificates returned so far, the batch of the last call included.
ReturnedSoFar ==
    certs_drained + (IF certs_ret.kind = "Batch" THEN Len(certs_ret.certificates) ELSE 0)

\* C24: once the aggregator has returned a batch, the append of a
\* certificate of an origin not seen before returns a batch of that one
\* certificate; from the first batch on every accepted certificate has been
\* returned, each once, and none is kept for a later batch.
C24_OneByOneAfterFirstBatch ==
    /\ (certs_drained > 0 /\ certs_call.origin \notin OriginsBefore)
          => certs_ret = [kind |-> "Batch", certificates |-> <<certs_call>>]
    /\ ReturnedSoFar > 0
          => /\ ReturnedSoFar = Len(certs_log)
             /\ certificates_aggregator.certificates = <<>>
    /\ NoDuplicates(certs_log)

\* The third certificate accepted is returned alone, after a batch of two.
C24_Witness ==
    /\ certs_drained = 2
    /\ certs_call.origin \notin OriginsBefore
    /\ certs_ret = [kind |-> "Batch", certificates |-> <<certs_call>>]
    /\ Len(certs_log) = 3

\* ---------------------------------------------------------------- C25
\* list is before with one entry added at its end.
ExtendedBy(list, before, entry) == list = Append(before, entry)

\* C25: neither aggregator latches.  An append by an author not seen
\* before, made when the stake of the authors seen had already reached Q,
\* returns a certificate whose list is the aggregator's list before the
\* call with that author's entry added at the end; a returned list is the
\* list the aggregator keeps, which a refused append leaves as it is and no
\* append shortens: so each certificate's list is the list of the
\* certificate returned before it, extended by the new author.
C25_NoLatch ==
    /\ ( /\ timeouts_ret.kind # "init"
         /\ StakeOf(committee, timeouts_before.used) >= quorum_threshold(committee)
         /\ timeouts_call.author \notin timeouts_before.used )
          => /\ timeouts_ret.kind = "TimeoutCert"
             /\ ExtendedBy(timeouts_ret.timeouts, timeouts_before.timeouts,
                           <<timeouts_call.author, timeouts_call.signature>>)
    /\ timeouts_ret.kind = "TimeoutCert"
          => timeouts_ret.timeouts = timeout_aggregator.timeouts
    /\ timeouts_ret.kind = "AuthorityReuse"
          => timeout_aggregator.timeouts = timeouts_before.timeouts
    /\ Len(timeout_aggregator.timeouts) >= Len(timeouts_before.timeouts)
    /\ ( /\ no_votes_ret.kind # "init"
         /\ StakeOf(committee, no_votes_before.used) >= quorum_threshold(committee)
         /\ no_votes_call.author \notin no_votes_before.used )
          => /\ no_votes_ret.kind = "NoVoteCert"
             /\ ExtendedBy(no_votes_ret.no_votes, no_votes_before.no_votes,
                           <<no_votes_call.author, no_votes_call.signature>>)
    /\ no_votes_ret.kind = "NoVoteCert"
          => no_votes_ret.no_votes = no_vote_aggregator.no_votes
    /\ no_votes_ret.kind = "AuthorityReuse"
          => no_vote_aggregator.no_votes = no_votes_before.no_votes
    /\ Len(no_vote_aggregator.no_votes) >= Len(no_votes_before.no_votes)

\* Both aggregators return a second certificate: the stake was above Q
\* before the append of a new author.
C25_Witness ==
    /\ timeouts_ret.kind = "TimeoutCert"
    /\ no_votes_ret.kind = "NoVoteCert"
    /\ StakeOf(committee, timeouts_before.used) >= quorum_threshold(committee)
    /\ StakeOf(committee, no_votes_before.used) >= quorum_threshold(committee)
    /\ Len(timeouts_ret.timeouts) = Len(timeouts_before.timeouts) + 1
    /\ Len(no_votes_ret.no_votes) = Len(no_votes_before.no_votes) + 1
    /\ Len(no_votes_before.no_votes) >= 2

\* ---------------------------------------------------------------- C26
\* The step is a call of get_parents that returns a list.
ReturnsList == SyncStep("get_parents") /\ sync_ret'.kind = "Ok"

\* C26 as stated: for every header, get_parents returns the empty list if
\* and only if it has sent a SyncParents request in that call.
C26_EmptyListIffRequest ==
    [][ReturnsList =>
          (sync_ret'.parents = <<>> <=> tx_header_waiter' # tx_header_waiter)]_vars

\* C26 as amended: for every header that has a parent, get_parents returns
\* the empty list if and only if it has sent a SyncParents request in that
\* call; for a header without parents it returns the empty list and sends
\* nothing.
C26_EmptyListOfParents ==
    [][ReturnsList =>
          IF sync_call'.header.parents # {}
          THEN sync_ret'.parents = <<>> <=> tx_header_waiter' # tx_header_waiter
          ELSE sync_ret'.parents = <<>> /\ tx_header_waiter' = tx_header_waiter]_vars

\* get_parents has returned the empty list for a header without parents;
\* no request has been sent.
C26_Witness ==
    /\ sync_call.op = "get_parents"
    /\ sync_call.header.parents = {}
    /\ sync_ret = [kind |-> "Ok", parents |-> <<>>]
    /\ tx_header_waiter = <<>>
    /\ store # <<>>

\* ---------------------------------------------------------------- C27
\* C27: the header id, round and origin of a returned Certificate are
\* those of every vote the aggregator has accepted: no vote for another
\* header, round or origin is counted toward the certificate.
C27_CertificateOfItsVotes ==
    votes_ret.kind = "Certificate" =>
      \A i \in DOMAIN votes_log :
         /\ votes_log[i].id = votes_ret.header_id
         /\ votes_log[i].round = votes_ret.round
         /\ votes_log[i].origin = votes_ret.origin

\* ---------------------------------------------------------------- C28
\* How often x occurs in seq.
Count(seq, x) == Cardinality({ i \in DOMAIN seq : seq[i] = x })

\* The certificates of the pending futures.
Pending == [i \in DOMAIN waiting |-> waiting[i].deliver]

\* The copies of a certificate handed to the waiter: those still in its
\* channel, those in its pool and those sent to the Core.
Copies(certificate) ==
    Count(tx_certificate_waiter, certificate) + Count(Pending, certificate)
      + Count(tx_core, certificate)

\* Every dependency of every parked copy is in Storage.
AllPresent ==
    /\ tx_certificate_waiter = <<>>
    /\ \A i \in DOMAIN waiting : waiting[i].wait_for \subseteq DOMAIN store

\* C28: without a Storage error the waiter neither loses nor duplicates a
\* certificate.  A step of the waiter moves one copy from the channel to
\* the pool or from the pool to the Core and changes the number of copies
\* of no certificate, so a certificate is sent to the Core at most as often
\* as it was handed over; and once every dependency of every parked copy
\* is in Storage every copy gets sent: a certificate handed over twice is
\* delivered twice.
C28_NeitherLostNorDuplicated ==
    /\ [][\A h \in HeaderIds :
            /\ Copies(CertificateOf(h))' = Copies(CertificateOf(h))
            /\ Count(tx_core', CertificateOf(h)) >= Count(tx_core, CertificateOf(h))]_vars
    /\ AllPresent ~> (tx_certificate_waiter = <<>> /\ waiting = <<>>)

\* A certificate handed over twice has been sent to the Core twice, after
\* its header's parents were written.
C28_Witness ==
    /\ Len(tx_core) = 2
    /\ tx_core[1] = tx_core[2]
    /\ tx_certificate_waiter = <<>>
    /\ waiting = <<>>
    /\ delivered[1].wait_for # {}
    /\ delivered[2].wait_for # delivered[1].wait_for
    /\ ~storage_faults

\* ---------------------------------------------------------------- C23
\* The Core is suspended in deliver_certificate's send on a full channel.
CoreBlocked ==
    core_task.status = "sending" /\ Len(tx_certificate_waiter) >= capacity

\* The CertificateWaiter is suspended in its send on a full channel.
WaiterBlocked ==
    waiter_task.status = "sending" /\ Len(tx_core) >= capacity

\* C23: the Core with its Synchronizer and the CertificateWaiter never
\* deadlock: in no reachable state is the Synchronizer suspended sending a
\* certificate on a full channel to the waiter while the waiter is
\* suspended sending a released certificate on a full channel to the Core.
C23_NoDeadlock == ~(CoreBlocked /\ WaiterBlocked)

=============================================================================
